---------------------------- MODULE Spec2Model ----------------------------
(***************************************************************************)
(* State-machine model of the LEGO Art Creator (src/script.js): the grid   *)
(* document (legoGrid, undoStack, canvasSize), the tools (currentColor,     *)
(* isEraserMode) and the handlers that the page registers.                  *)
(*                                                                          *)
(* JavaScript arrays are objects with identity.  A row of the grid is       *)
(* modelled as a record [id, cells]: id is the identity of the row array,   *)
(* cells its contents.  A write legoGrid[row][col] = v changes the array    *)
(* with that identity wherever it is referenced (live grid or snapshots).   *)
(* The outer arrays are never written in place (legoGrid is rebound,        *)
(* undoStack is pushed/popped/shifted), so they are plain sequences.        *)
(* Rows and columns are 0-based as in the source; TLA+ sequences are        *)
(* 1-based, so index i of the source is position i + 1 here.                *)
(***************************************************************************)
EXTENDS Integers, Sequences, FiniteSets, TLC

VARIABLES
    currentColor,   \* script.js:8   selected colour (hex string)
    canvasSize,     \* script.js:9   grid size
    legoGrid,       \* script.js:10  array of row arrays
    undoStack,      \* script.js:11  array of snapshots (most recent last)
    isEraserMode,   \* script.js:12  eraser tool active
    domSize,        \* the .brick elements of #legoCanvas form a domSize x domSize block (0: none yet)
    ready,          \* DOMContentLoaded has run: the listeners are registered
    progress,       \* the percentage shown by #progressText
    imgSrc,         \* the file assigned to #referenceImage.src (NoImage: none)
    imgStatus,      \* "none", "loading", "loaded" (complete, naturalWidth > 0) or "broken"
    imgOnload,      \* the function in img.onload: "none", "loadImageData" or "processImageToLego"
    imgOnerror,     \* the function in img.onerror: "none" or "reenable"
    generateBtnDisabled,  \* #generateBtn.disabled
    referenceImageData,   \* script.js:13  the file whose pixels were stored, or null
    lastDraw,       \* the scaled buffer read by the last processImageToLego (NoDraw: none)
    nextId,         \* identity given to the next array that is allocated
    outcome,        \* how the last handler ended: "ok", an alert text, or "TypeError"
    lastOp,         \* name of the last handler that ran
    steps,          \* number of handlers that have run
    stepLimit,      \* number of handlers the run explores
    edits,          \* editing session: grid edits made so far
    undos,          \* editing session: undo calls made after the edits (the last may find nothing)
    editLog,        \* editing session: the grid after 0, 1, 2, ... edits
    sample,         \* colour matching: the RGB sample looked up (NoSample: none)
    matched         \* colour matching: what findClosestLegoColor returned for it

vars == <<currentColor, canvasSize, legoGrid, undoStack, isEraserMode,
          domSize, ready, progress, imgSrc, imgStatus, imgOnload, imgOnerror,
          generateBtnDisabled, referenceImageData, lastDraw,
          nextId, outcome, lastOp, steps, stepLimit, edits, undos, editLog,
          sample, matched>>

\* bookkeeping of the editing-session and colour-matching runs
sessionVars == <<stepLimit, edits, undos, editLog>>
matchVars == <<sample, matched>>

\* the image element, the generate button and the stored reference data
imageVars == <<imgSrc, imgStatus, imgOnload, imgOnerror, generateBtnDisabled,
               referenceImageData, lastDraw>>

\* the grid document and the tools
gridVars == <<currentColor, canvasSize, legoGrid, undoStack, isEraserMode,
              domSize, progress, nextId>>

-----------------------------------------------------------------------------
(* Bounds of the exploration *)

\* number of handler invocations explored from page load
MaxSteps == 4

\* bricks the user clicks: those whose row and column are at most ClickSpan,
\* or the last one of the block
ClickSpan == 0

\* number of palette swatches the user clicks (the first NumSwatches ones)
NumSwatches == 2

-----------------------------------------------------------------------------
(* Values of JavaScript *)

null == "null"
undefined == "undefined"
\* an index of a sparse array that was never written; reads give undefined
hole == "<hole>"

\* maximum number of snapshots kept by saveState
MaxUndo == 20

\* the sizes offered by the canvasSize selector
SupportedSizes == {16, 32, 48}

legoColors == <<
    [name |-> "Bright Red",        hex |-> "#C91A09"],
    [name |-> "Bright Blue",       hex |-> "#0055BF"],
    [name |-> "Bright Yellow",     hex |-> "#F2CD37"],
    [name |-> "Dark Green",        hex |-> "#287F46"],
    [name |-> "Bright Orange",     hex |-> "#FE8A18"],
    [name |-> "Medium Lavender",   hex |-> "#AC78BA"],
    [name |-> "White",             hex |-> "#F2F3F2"],
    [name |-> "Black",             hex |-> "#05131D"],
    [name |-> "Dark Tan",          hex |-> "#958A73"],
    [name |-> "Medium Blue",       hex |-> "#5A93DB"],
    [name |-> "Bright Green",      hex |-> "#4B9F4A"],
    [name |-> "Dark Orange",       hex |-> "#A95500"],
    [name |-> "Light Purple",      hex |-> "#E4ADC8"],
    [name |-> "Sand Blue",         hex |-> "#6074A1"],
    [name |-> "Dark Red",          hex |-> "#720E0F"],
    [name |-> "Lime",              hex |-> "#BBE90B"],
    [name |-> "Medium Azur",       hex |-> "#36AEBF"],
    [name |-> "Dark Brown",        hex |-> "#352100"],
    [name |-> "Light Bluish Gray", hex |-> "#A0A5A9"],
    [name |-> "Dark Bluish Gray",  hex |-> "#6C6E68"] >>

PaletteHexes == {legoColors[i].hex : i \in DOMAIN legoColors}

-----------------------------------------------------------------------------
(* JavaScript arrays *)

\* TLC keeps a function [k \in S |-> e] unevaluated until it is compared;
\* Evaluated(seq) is the same sequence with its elements computed
Evaluated(seq) == seq \o <<>>

\* a[i] = v on an array with contents a: in range it replaces, past the end
\* it extends the array, leaving holes between the old end and i
ArraySet(a, i, v) ==
    IF i < Len(a)
    THEN [a EXCEPT ![i + 1] = v]
    ELSE a \o [k \in 1..(i - Len(a)) |-> hole] \o <<v>>

\* a[i]: undefined past the end and on a hole
ArrayGet(a, i) ==
    IF i < Len(a) /\ a[i + 1] # hole THEN a[i + 1] ELSE undefined

\* [...a]: the copy has no holes, they become undefined
Spread(a) == Evaluated([k \in 1..Len(a) |-> IF a[k] = hole THEN undefined ELSE a[k]])

\* the contents of a grid, row identities dropped
Cells(grid) == Evaluated([i \in 1..Len(grid) |-> grid[i].cells])

\* what a read of each cell gives: a hole reads as undefined
ReadCells(grid) ==
    Evaluated([i \in 1..Len(grid) |-> Spread(grid[i].cells)])

\* grid with the array of identity id holding newCells wherever it occurs
StoreRow(grid, id, newCells) ==
    Evaluated([i \in 1..Len(grid) |->
        IF grid[i].id = id THEN [grid[i] EXCEPT !.cells = newCells] ELSE grid[i]])

StoreRowInStack(stack, id, newCells) ==
    Evaluated([k \in 1..Len(stack) |-> StoreRow(stack[k], id, newCells)])

\* Array(size).fill(Array(size).fill(null)): every row is the same array
EmptyGridSharedRow(size, firstId) ==
    Evaluated([i \in 1..size |->
        [id |-> firstId, cells |-> Evaluated([j \in 1..size |-> null])]])

\* Array(size).fill(null).map(() => Array(size).fill(null)): fresh rows with
\* the identities firstId, firstId + 1, ...
EmptyGrid(size, firstId) ==
    Evaluated([i \in 1..size |->
        [id |-> firstId + i - 1, cells |-> Evaluated([j \in 1..size |-> null])]])

-----------------------------------------------------------------------------
(* saveState, script.js:293-302 *)

\* legoGrid.map(row => row): the snapshot holds the live rows themselves
CopyGridShared(grid, firstId) == grid

\* legoGrid.map(row => [...row]): every row is copied into a fresh array
CopyGrid(grid, firstId) ==
    Evaluated([i \in 1..Len(grid) |->
        [id |-> firstId + i - 1, cells |-> Spread(grid[i].cells)]])

\* saveState with undoStack.pop() in place of undoStack.shift(): at the limit
\* the snapshot just pushed is the one removed
saveStatePop(stack, grid, firstId) ==
    LET pushed == Append(stack, CopyGrid(grid, firstId))
    IN  IF Len(pushed) > MaxUndo THEN SubSeq(pushed, 1, Len(pushed) - 1) ELSE pushed

\* saveState with >= in place of >: only MaxUndo - 1 snapshots are kept
saveStateEarlyShift(stack, grid, firstId) ==
    LET pushed == Append(stack, CopyGrid(grid, firstId))
    IN  IF Len(pushed) >= MaxUndo THEN Tail(pushed) ELSE pushed

\* undoStack after saveState: push the copy, then shift when longer than MaxUndo
saveState(stack, grid, firstId) ==
    LET pushed == Append(stack, CopyGrid(grid, firstId))
    IN  IF Len(pushed) > MaxUndo THEN Tail(pushed) ELSE pushed

-----------------------------------------------------------------------------
(* Strings.  TLA+ strings are atoms here, so the characters of the palette's *)
(* hex strings are tabulated, and hexToRgb works on the characters.          *)

StringChars(s) ==
    CASE s = "#C91A09" -> <<"#", "C", "9", "1", "A", "0", "9">>
      [] s = "#0055BF" -> <<"#", "0", "0", "5", "5", "B", "F">>
      [] s = "#F2CD37" -> <<"#", "F", "2", "C", "D", "3", "7">>
      [] s = "#287F46" -> <<"#", "2", "8", "7", "F", "4", "6">>
      [] s = "#FE8A18" -> <<"#", "F", "E", "8", "A", "1", "8">>
      [] s = "#AC78BA" -> <<"#", "A", "C", "7", "8", "B", "A">>
      [] s = "#F2F3F2" -> <<"#", "F", "2", "F", "3", "F", "2">>
      [] s = "#05131D" -> <<"#", "0", "5", "1", "3", "1", "D">>
      [] s = "#958A73" -> <<"#", "9", "5", "8", "A", "7", "3">>
      [] s = "#5A93DB" -> <<"#", "5", "A", "9", "3", "D", "B">>
      [] s = "#4B9F4A" -> <<"#", "4", "B", "9", "F", "4", "A">>
      [] s = "#A95500" -> <<"#", "A", "9", "5", "5", "0", "0">>
      [] s = "#E4ADC8" -> <<"#", "E", "4", "A", "D", "C", "8">>
      [] s = "#6074A1" -> <<"#", "6", "0", "7", "4", "A", "1">>
      [] s = "#720E0F" -> <<"#", "7", "2", "0", "E", "0", "F">>
      [] s = "#BBE90B" -> <<"#", "B", "B", "E", "9", "0", "B">>
      [] s = "#36AEBF" -> <<"#", "3", "6", "A", "E", "B", "F">>
      [] s = "#352100" -> <<"#", "3", "5", "2", "1", "0", "0">>
      [] s = "#A0A5A9" -> <<"#", "A", "0", "A", "5", "A", "9">>
      [] s = "#6C6E68" -> <<"#", "6", "C", "6", "E", "6", "8">>

HexDigits == <<"0", "1", "2", "3", "4", "5", "6", "7", "8", "9",
               "A", "B", "C", "D", "E", "F">>

\* value of one hexadecimal digit
DigitValue(ch) == (CHOOSE k \in 1..Len(HexDigits) : HexDigits[k] = ch) - 1

\* parseInt(chars, 16) on a string of hexadecimal digits
parseInt16(chars) ==
    LET Val[k \in 0..Len(chars)] ==
            IF k = 0 THEN 0 ELSE 16 * Val[k - 1] + DigitValue(chars[k])
    IN  Val[Len(chars)]

\* str.substring(from, to) for 0 <= from <= to <= length
substring(chars, from, to) == SubSeq(chars, from + 1, to)

\* hex.replace('#', ''): the first '#' is removed
removeHash(chars) ==
    IF \E k \in 1..Len(chars) : chars[k] = "#"
    THEN LET first == CHOOSE k \in 1..Len(chars) :
                          chars[k] = "#" /\ \A m \in 1..(k - 1) : chars[m] # "#"
         IN  SubSeq(chars, 1, first - 1) \o SubSeq(chars, first + 1, Len(chars))
    ELSE chars

\* script.js:585-596
hexToRgb(hex) ==
    LET digits == removeHash(StringChars(hex))
    IN  [r |-> parseInt16(substring(digits, 0, 2)),
         g |-> parseInt16(substring(digits, 2, 4)),
         b |-> parseInt16(substring(digits, 4, 6))]

-----------------------------------------------------------------------------
(* findClosestLegoColor, script.js:552-578 *)

\* stands for the number Infinity; every distance is >= 0
Infinity == -1

\* The source compares Math.sqrt of the sum of squares.  The sums are integers
\* of at most 3 * 255^2, on which the correctly rounded square root is
\* strictly increasing, so the comparison is that of the sums themselves.
distance(r, g, b, legoRGB) ==
    (r - legoRGB.r) * (r - legoRGB.r) +
    (g - legoRGB.g) * (g - legoRGB.g) +
    (b - legoRGB.b) * (b - legoRGB.b)

\* distance < smallestDistance
\* the comparison with <= in place of <: a later entry at the same distance wins
closerOrEqual(d, smallestDistance) == smallestDistance = Infinity \/ d <= smallestDistance

closer(d, smallestDistance) == smallestDistance = Infinity \/ d < smallestDistance

\* hexToRgb is pure: its results on the palette are computed once
legoRGBs == [k \in DOMAIN legoColors |-> hexToRgb(legoColors[k].hex)]

findClosestLegoColor(r, g, b) ==
    LET Scan[k \in 0..Len(legoColors)] ==
            IF k = 0
            THEN [closestColor |-> legoColors[1].hex, smallestDistance |-> Infinity]
            ELSE LET best == Scan[k - 1]
                     d == distance(r, g, b, legoRGBs[k])
                 IN  IF closer(d, best.smallestDistance)
                     THEN [closestColor |-> legoColors[k].hex, smallestDistance |-> d]
                     ELSE best
    IN  Scan[Len(legoColors)].closestColor

-----------------------------------------------------------------------------
(* Images and ctx.drawImage / ctx.getImageData *)

NoImage == [w |-> 0, h |-> 0, kind |-> "none"]
NoDraw == [image |-> NoImage, size |-> 0, filter |-> "none"]

\* the files the user uploads: two images and a file that is no image
StripesImage == [w |-> 64, h |-> 64, kind |-> "stripes"]
GradientImage == [w |-> 24, h |-> 40, kind |-> "gradient"]
BrokenFile == [w |-> 0, h |-> 0, kind |-> "broken"]
Files == {StripesImage, GradientImage, BrokenFile}
Decodable(file) == file.kind # "broken"

\* the opaque pixel (x, y) of an image, <<r, g, b>>
SourcePixel(image, x, y) ==
    IF image.kind = "stripes"
    THEN IF x % 2 = 0 THEN <<0, 0, 0>> ELSE <<255, 255, 255>>
    ELSE <<(x * 255) \div (image.w - 1), (y * 255) \div (image.h - 1), (x * y) % 256>>

\* drawImage(img, 0, 0, size, size) resamples with a filter the platform
\* chooses (imageSmoothingEnabled is left at its default).  Two outcomes are
\* modelled: "nearest" takes the source pixel at the scaled coordinate,
\* "average" takes the mean of the source pixels the target pixel covers.
Filters == {"nearest", "average"}

\* what a call of drawImage does: it raises, or it resamples with a filter
DrawOutcomes == Filters \cup {"throws"}

ScaledPixel(draw, x, y) ==
    LET image == draw.image
        x0 == (x * image.w) \div draw.size
        y0 == (y * image.h) \div draw.size
        x1 == ((x + 1) * image.w - 1) \div draw.size
        y1 == ((y + 1) * image.h - 1) \div draw.size
        n  == (x1 - x0 + 1) * (y1 - y0 + 1)
        SumX[ch \in 1..3, yy \in y0..y1, xx \in (x0 - 1)..x1] ==
            IF xx = x0 - 1 THEN 0 ELSE SumX[ch, yy, xx - 1] + SourcePixel(image, xx, yy)[ch]
        SumY[ch \in 1..3, yy \in (y0 - 1)..y1] ==
            IF yy = y0 - 1 THEN 0 ELSE SumY[ch, yy - 1] + SumX[ch, yy, x1]
    IN  IF draw.filter = "nearest"
        THEN SourcePixel(image, x0, y0)
        ELSE [ch \in 1..3 |-> (2 * SumY[ch, y1] + n) \div (2 * n)]

\* imageData.data[index] of getImageData(0, 0, size, size): RGBA, row-major
PixelData(draw, index) ==
    LET p == index \div 4
        channel == index % 4
    IN  IF channel = 3 THEN 255
        ELSE ScaledPixel(draw, p % draw.size, p \div draw.size)[channel + 1]

-----------------------------------------------------------------------------
(* processImageToLego, script.js:461-541 *)

\* the loop body with the pixel index of (col, row) in place of (row, col)
closestLegoColorTransposed(draw, row, col) ==
    LET pixelIndex == (col * draw.size + row) * 4
        r == PixelData(draw, pixelIndex)
        g == PixelData(draw, pixelIndex + 1)
        b == PixelData(draw, pixelIndex + 2)
    IN  findClosestLegoColor(r, g, b)

\* the colour the loop body assigns to (row, col): script.js:503-512
closestLegoColor(draw, row, col) ==
    LET pixelIndex == (row * draw.size + col) * 4
        r == PixelData(draw, pixelIndex)
        g == PixelData(draw, pixelIndex + 1)
        b == PixelData(draw, pixelIndex + 2)
    IN  findClosestLegoColor(r, g, b)

\* findClosestLegoColor is pure: its results over a scaled buffer are
\* tabulated once per buffer
Draws == {[image |-> f, size |-> n, filter |-> fl] :
              f \in {f \in Files : Decodable(f)}, n \in SupportedSizes, fl \in Filters}

ClosestTable ==
    [draw \in Draws |->
        [row \in 0..(draw.size - 1) |->
            [col \in 0..(draw.size - 1) |-> closestLegoColor(draw, row, col)]]]

\* script.js:499-518: the loop over row and col < size.  legoGrid[row] is
\* undefined for a row the grid does not have and the assignment throws; the
\* rows before it are written.  Row `row` ends with cells 0..size-1 holding
\* the colours of the buffer's row and its further cells as they were.  The
\* result is the grid, the stack (whose rows change with the grid's when
\* they are the same arrays) and threw.
quantizeLoop(grid, stack, draw) ==
    LET closest == ClosestTable[draw]
        size == draw.size
        written == {k \in 1..Len(grid) : k <= size}
        RowCells(cells, row) ==
            Evaluated([j \in 1..(IF Len(cells) > size THEN Len(cells) ELSE size) |->
                IF j <= size THEN closest[row][j - 1] ELSE cells[j]])
        AfterLoop(rec) ==
            IF \E k \in written : grid[k].id = rec.id
            THEN LET k == CHOOSE k \in written : grid[k].id = rec.id
                 IN  [rec EXCEPT !.cells = RowCells(grid[k].cells, k - 1)]
            ELSE rec
        StoreRows(g) == Evaluated([i \in 1..Len(g) |-> AfterLoop(g[i])])
    IN  [grid  |-> StoreRows(grid),
         stack |-> Evaluated([n \in 1..Len(stack) |-> StoreRows(stack[n])]),
         threw |-> size > Len(grid)]

-----------------------------------------------------------------------------
(* updateProgress, script.js:219-236 *)

\* forEach visits neither holes nor anything past the end; a cell counts
\* when it is !== null (undefined counts)
filledCells(grid) ==
    LET Counted(i) == {<<i, j>> : j \in {j \in 1..Len(grid[i].cells) :
                           grid[i].cells[j] # hole /\ grid[i].cells[j] # null}}
    IN  Cardinality(UNION {Counted(i) : i \in 1..Len(grid)})

\* Math.round(x) is floor(x + 1/2)
updateProgress(grid, size) ==
    LET totalCells == size * size
    IN  (200 * filledCells(grid) + totalCells) \div (2 * totalCells)

-----------------------------------------------------------------------------
(* The handlers *)

\* every handler runs to completion; the page registers them in DOMContentLoaded
Handler(name) ==
    /\ ready
    /\ steps < stepLimit
    /\ steps' = steps + 1
    /\ lastOp' = name

\* DOMContentLoaded without its selectColor(legoColors[0].hex) call
DOMContentLoadedNoSelect ==
    /\ ~ready
    /\ ready' = TRUE
    /\ legoGrid' = EmptyGrid(canvasSize, nextId)
    /\ nextId' = nextId + canvasSize
    /\ domSize' = canvasSize
    /\ progress' = updateProgress(legoGrid', canvasSize)
    /\ currentColor' = currentColor
    /\ outcome' = "ok"
    /\ lastOp' = "DOMContentLoaded"
    /\ UNCHANGED <<canvasSize, undoStack, isEraserMode, steps>>
    /\ UNCHANGED imageVars

\* script.js:45-55: initializeColorPalette, initializeCanvas, setupEventListeners,
\* selectColor(legoColors[0].hex)
DOMContentLoaded ==
    /\ ~ready
    /\ ready' = TRUE
    /\ legoGrid' = EmptyGrid(canvasSize, nextId)
    /\ nextId' = nextId + canvasSize
    /\ domSize' = canvasSize
    /\ progress' = updateProgress(legoGrid', canvasSize)
    /\ currentColor' = legoColors[1].hex
    /\ outcome' = "ok"
    /\ lastOp' = "DOMContentLoaded"
    /\ UNCHANGED <<canvasSize, undoStack, isEraserMode, steps>>
    /\ UNCHANGED imageVars

\* script.js:76-80: click on swatch i: selectColor(color.hex), eraser off
SwatchClick(i) ==
    /\ Handler("selectColor")
    /\ currentColor' = legoColors[i].hex
    /\ isEraserMode' = FALSE
    /\ outcome' = "ok"
    /\ UNCHANGED <<canvasSize, legoGrid, undoStack, domSize, ready, progress, nextId>>
    /\ UNCHANGED imageVars

\* script.js:255-258
toggleEraser ==
    /\ Handler("toggleEraser")
    /\ isEraserMode' = ~isEraserMode
    /\ outcome' = "ok"
    /\ UNCHANGED <<currentColor, canvasSize, legoGrid, undoStack, domSize, ready,
                   progress, nextId>>
    /\ UNCHANGED imageVars

\* script.js:178-198: click on the brick element of (row, col)
placeBrick(row, col) ==
    /\ Handler("placeBrick")
    /\ row < domSize /\ col < domSize
    /\ LET saved == saveState(undoStack, legoGrid, nextId)
           value == IF isEraserMode THEN null ELSE currentColor
       IN  /\ nextId' = nextId + Len(legoGrid)
           /\ IF row < Len(legoGrid)
              THEN LET target   == legoGrid[row + 1]
                       newCells == ArraySet(target.cells, col, value)
                   IN  /\ legoGrid' = StoreRow(legoGrid, target.id, newCells)
                       /\ undoStack' = StoreRowInStack(saved, target.id, newCells)
                       /\ progress' = updateProgress(legoGrid', canvasSize)
                       /\ outcome' = "ok"
              ELSE \* legoGrid[row] is undefined: the assignment throws
                   /\ legoGrid' = legoGrid
                   /\ undoStack' = saved
                   /\ progress' = progress
                   /\ outcome' = "TypeError"
    /\ UNCHANGED <<currentColor, canvasSize, isEraserMode, domSize, ready>>
    /\ UNCHANGED imageVars

\* script.js:307-329: the bricks of the page are read in document order;
\* legoGrid[row] is undefined for a row the grid does not have, and reading
\* [col] of it throws before updateProgress is reached
redrawThrows(grid) == domSize > Len(grid)

\* undo with undoStack.shift() in place of undoStack.pop(): the oldest
\* snapshot is the one restored
undoOldest ==
    /\ Handler("undo")
    /\ IF Len(undoStack) = 0
       THEN /\ outcome' = "Nothing to undo!"
            /\ UNCHANGED <<legoGrid, undoStack, progress>>
       ELSE LET previousState == undoStack[1]
            IN  /\ undoStack' = Tail(undoStack)
                /\ legoGrid' = previousState
                /\ IF redrawThrows(previousState)
                   THEN outcome' = "TypeError" /\ progress' = progress
                   ELSE outcome' = "ok" /\ progress' = updateProgress(previousState, canvasSize)
    /\ UNCHANGED <<currentColor, canvasSize, isEraserMode, domSize, ready, nextId>>
    /\ UNCHANGED imageVars

\* script.js:276-288
undo ==
    /\ Handler("undo")
    /\ IF Len(undoStack) = 0
       THEN /\ outcome' = "Nothing to undo!"
            /\ UNCHANGED <<legoGrid, undoStack, progress>>
       ELSE LET previousState == undoStack[Len(undoStack)]
            IN  /\ undoStack' = SubSeq(undoStack, 1, Len(undoStack) - 1)
                /\ legoGrid' = previousState
                /\ IF redrawThrows(previousState)
                   THEN outcome' = "TypeError" /\ progress' = progress
                   ELSE outcome' = "ok" /\ progress' = updateProgress(previousState, canvasSize)
    /\ UNCHANGED <<currentColor, canvasSize, isEraserMode, domSize, ready, nextId>>
    /\ UNCHANGED imageVars

\* clearCanvas without its saveState() call
clearCanvasNoSave(confirmed) ==
    /\ Handler("clearCanvas")
    /\ IF confirmed
       THEN /\ undoStack' = undoStack
            /\ legoGrid' = EmptyGrid(canvasSize, nextId + Len(legoGrid))
            /\ nextId' = nextId + Len(legoGrid) + canvasSize
            /\ domSize' = canvasSize
            /\ progress' = updateProgress(legoGrid', canvasSize)
            /\ outcome' = "ok"
       ELSE /\ outcome' = "declined"
            /\ UNCHANGED <<legoGrid, undoStack, nextId, domSize, progress>>
    /\ UNCHANGED <<currentColor, canvasSize, isEraserMode, ready>>
    /\ UNCHANGED imageVars

\* script.js:245-250: confirmed is the answer to the confirm dialog
clearCanvas(confirmed) ==
    /\ Handler("clearCanvas")
    /\ IF confirmed
       THEN /\ undoStack' = saveState(undoStack, legoGrid, nextId)
            /\ legoGrid' = EmptyGrid(canvasSize, nextId + Len(legoGrid))
            /\ nextId' = nextId + Len(legoGrid) + canvasSize
            /\ domSize' = canvasSize
            /\ progress' = updateProgress(legoGrid', canvasSize)
            /\ outcome' = "ok"
       ELSE /\ outcome' = "declined"
            /\ UNCHANGED <<legoGrid, undoStack, nextId, domSize, progress>>
    /\ UNCHANGED <<currentColor, canvasSize, isEraserMode, ready>>
    /\ UNCHANGED imageVars

\* script.js:674-682: the selector changes to newSize
canvasSizeChange(newSize, confirmed) ==
    /\ Handler("canvasSizeChange")
    /\ newSize # canvasSize
    /\ canvasSize' = newSize
    /\ IF confirmed
       THEN /\ legoGrid' = EmptyGrid(newSize, nextId)
            /\ nextId' = nextId + newSize
            /\ domSize' = newSize
            /\ progress' = updateProgress(legoGrid', newSize)
            /\ outcome' = "ok"
       ELSE /\ outcome' = "declined"
            /\ UNCHANGED <<legoGrid, nextId, domSize, progress>>
    /\ UNCHANGED <<currentColor, undoStack, isEraserMode, ready>>
    /\ UNCHANGED imageVars

\* saveCreation with a saveState() call at its start
saveCreationSaving ==
    /\ Handler("saveCreation")
    /\ outcome' = IF canvasSize > Len(legoGrid) THEN "TypeError" ELSE "ok"
    /\ undoStack' = saveState(undoStack, legoGrid, nextId)
    /\ nextId' = nextId + Len(legoGrid)
    /\ UNCHANGED <<currentColor, canvasSize, legoGrid, isEraserMode, domSize, progress, ready>>
    /\ UNCHANGED imageVars

\* script.js:605-651: legoGrid[row][col] is read for row, col < canvasSize
saveCreation ==
    /\ Handler("saveCreation")
    /\ outcome' = IF canvasSize > Len(legoGrid) THEN "TypeError" ELSE "ok"
    /\ UNCHANGED <<ready>>
    /\ UNCHANGED gridVars
    /\ UNCHANGED imageVars

\* a reader.onload whose loadImageData leaves the installed img.onload in place
readerOnloadKeepHandler(file) ==
    /\ Handler("readerOnload")
    /\ imgSrc' = file
    /\ imgStatus' = "loading"
    /\ outcome' = "ok"
    /\ UNCHANGED <<imgOnload, imgOnerror, generateBtnDisabled, referenceImageData, lastDraw, ready>>
    /\ UNCHANGED gridVars

\* script.js:338-363: the callback reader.onload of handleImageUpload, once
\* the chosen file has been read: img.src is set, which starts the load of
\* the image, and loadImageData installs img.onload
readerOnload(file) ==
    /\ Handler("readerOnload")
    /\ imgSrc' = file
    /\ imgStatus' = "loading"
    /\ imgOnload' = "loadImageData"
    /\ outcome' = "ok"
    /\ UNCHANGED <<imgOnerror, generateBtnDisabled, referenceImageData, lastDraw, ready>>
    /\ UNCHANGED gridVars

\* script.js:368-386: opens the file picker, after a confirm dialog when the
\* grid has content
changeImage(confirmed) ==
    /\ Handler("changeImage")
    /\ LET hasContent == \E i \in 1..Len(legoGrid) : \E j \in 1..Len(legoGrid[i].cells) :
                             legoGrid[i].cells[j] # null
       IN  outcome' = IF hasContent /\ ~confirmed THEN "declined" ELSE "ok"
    /\ UNCHANGED <<ready>>
    /\ UNCHANGED gridVars
    /\ UNCHANGED imageVars

\* script.js:461-541 on the grid document: saveState, drawImage, the
\* quantisation loop, redrawCanvas (with updateProgress).  drawn is what
\* drawImage did: "throws" when it raised (the catch of script.js:484-488
\* alerts and returns), else the platform's resampling.  disabled is the
\* state of the generate button when the function is entered; only the end
\* of the function (script.js:527-530) enables it.
processImageToLego(drawn, disabled) ==
    LET draw == [image |-> imgSrc, size |-> canvasSize, filter |-> drawn]
        saved == saveState(undoStack, legoGrid, nextId)
        done == quantizeLoop(legoGrid, saved, draw)
        threw == done.threw \/ redrawThrows(done.grid)
    IN  /\ nextId' = nextId + Len(legoGrid)
        /\ IF drawn = "throws"
           THEN /\ undoStack' = saved
                /\ outcome' = "Error processing image"
                /\ generateBtnDisabled' = disabled
                /\ UNCHANGED <<legoGrid, progress, lastDraw>>
           ELSE /\ lastDraw' = draw
                /\ legoGrid' = done.grid
                /\ undoStack' = done.stack
                /\ progress' = IF threw THEN progress ELSE updateProgress(done.grid, canvasSize)
                /\ generateBtnDisabled' = IF threw THEN disabled ELSE FALSE
                /\ outcome' = IF threw THEN "TypeError" ELSE "generated"
        /\ UNCHANGED <<currentColor, canvasSize, isEraserMode, domSize>>

\* script.js:415-455: click on the generate button (a disabled button gets no click)
generateLegoArt(drawn) ==
    /\ Handler("generateLegoArt")
    /\ ~generateBtnDisabled
    /\ IF imgStatus = "none"
       THEN /\ outcome' = "Please upload an image first!"
            /\ UNCHANGED gridVars
            /\ UNCHANGED imageVars
       ELSE IF imgStatus = "loaded"
       THEN /\ processImageToLego(drawn, TRUE)
            /\ UNCHANGED <<imgSrc, imgStatus, imgOnload, imgOnerror, referenceImageData>>
       ELSE /\ generateBtnDisabled' = TRUE
            /\ imgOnload' = "processImageToLego"
            /\ imgOnerror' = "reenable"
            /\ outcome' = "waiting"
            /\ UNCHANGED <<imgSrc, imgStatus, referenceImageData, lastDraw>>
            /\ UNCHANGED gridVars
    /\ UNCHANGED <<ready>>

\* the load event of #referenceImage: the image of img.src has been decoded,
\* img.onload runs (script.js:397-404 or script.js:443-446)
imgLoad(drawn) ==
    /\ Handler("imgLoad")
    /\ imgStatus = "loading" /\ Decodable(imgSrc)
    /\ imgStatus' = "loaded"
    /\ IF imgOnload = "processImageToLego"
       THEN /\ processImageToLego(drawn, generateBtnDisabled)
            /\ UNCHANGED <<referenceImageData>>
       ELSE /\ referenceImageData' = IF imgOnload = "loadImageData" THEN imgSrc
                                     ELSE referenceImageData
            /\ outcome' = "ok"
            /\ UNCHANGED <<generateBtnDisabled, lastDraw>>
            /\ UNCHANGED gridVars
    /\ UNCHANGED <<imgSrc, imgOnload, imgOnerror, ready>>

\* the error event of #referenceImage: the file of img.src is no image,
\* img.onerror runs (script.js:448-453)
imgError ==
    /\ Handler("imgError")
    /\ imgStatus = "loading" /\ ~Decodable(imgSrc)
    /\ imgStatus' = "broken"
    /\ IF imgOnerror = "reenable"
       THEN generateBtnDisabled' = FALSE /\ outcome' = "Error loading image. Please try again."
       ELSE generateBtnDisabled' = generateBtnDisabled /\ outcome' = "ok"
    /\ UNCHANGED <<imgSrc, imgOnload, imgOnerror, referenceImageData, lastDraw, ready>>
    /\ UNCHANGED gridVars

-----------------------------------------------------------------------------
(* The page *)

NoSample == [r |-> -1, g |-> -1, b |-> -1]

\* script.js:8-13, before DOMContentLoaded
PageLoad ==
    /\ currentColor = "#FF0000"
    /\ canvasSize = 32
    /\ legoGrid = <<>>
    /\ undoStack = <<>>
    /\ isEraserMode = FALSE
    /\ referenceImageData = null
    /\ domSize = 0
    /\ ready = FALSE
    /\ progress = 0
    /\ imgSrc = NoImage
    /\ imgStatus = "none"
    /\ imgOnload = "none"
    /\ imgOnerror = "none"
    /\ generateBtnDisabled = FALSE
    /\ lastDraw = NoDraw
    /\ nextId = 1
    /\ outcome = "ok"
    /\ lastOp = "load"
    /\ steps = 0
    /\ edits = 0
    /\ undos = 0
    /\ editLog = <<>>

Init ==
    /\ PageLoad
    /\ stepLimit = MaxSteps
    /\ sample = NoSample
    /\ matched = "none"

ClickIndices(n) == {i \in 0..(n - 1) : i <= ClickSpan \/ i = n - 1}

\* any handler, in any order
Next ==
    /\ \/ DOMContentLoaded
       \/ \E i \in 1..NumSwatches : SwatchClick(i)
       \/ toggleEraser
       \/ \E row \in ClickIndices(domSize), col \in ClickIndices(domSize) : placeBrick(row, col)
       \/ undo
       \/ \E confirmed \in BOOLEAN : clearCanvas(confirmed)
       \/ \E newSize \in SupportedSizes, confirmed \in BOOLEAN :
              canvasSizeChange(newSize, confirmed)
       \/ saveCreation
       \/ \E file \in Files : readerOnload(file)
       \/ \E confirmed \in BOOLEAN : changeImage(confirmed)
       \/ \E drawn \in DrawOutcomes : generateLegoArt(drawn)
       \/ \E drawn \in DrawOutcomes : imgLoad(drawn)
       \/ imgError
    /\ UNCHANGED sessionVars
    /\ UNCHANGED matchVars

Spec == Init /\ [][Next]_vars

-----------------------------------------------------------------------------
(* An editing session: edits one after the other, then undo calls.  Edit   *)
(* number k + 1 clicks the brick (0, k); once, at edit ClearAt, the canvas *)
(* may be cleared instead.                                                  *)

\* number of edits of the longest session
MaxEdits == 25

\* the edit that may be a clearCanvas instead of a placeBrick
ClearAt == 22

SessionInit ==
    /\ PageLoad
    /\ stepLimit = MaxEdits + MaxUndo + 1
    /\ sample = NoSample
    /\ matched = "none"

SessionStart ==
    /\ DOMContentLoaded
    /\ editLog' = <<ReadCells(legoGrid')>>
    /\ UNCHANGED <<stepLimit, edits, undos>>

SessionEdit ==
    /\ undos = 0
    /\ edits < MaxEdits
    /\ \/ placeBrick(0, edits % domSize)
       \/ edits + 1 = ClearAt /\ clearCanvas(TRUE)
    /\ edits' = edits + 1
    /\ editLog' = Append(editLog, ReadCells(legoGrid'))
    /\ UNCHANGED <<stepLimit, undos>>

\* the session ends with the undo call that finds nothing to undo
SessionUndo ==
    /\ ~(lastOp = "undo" /\ outcome = "Nothing to undo!")
    /\ undo
    /\ undos' = undos + 1
    /\ UNCHANGED <<stepLimit, edits, editLog>>

SessionNext ==
    /\ \/ SessionStart
       \/ SessionEdit
       \/ SessionUndo
    /\ UNCHANGED matchVars

SessionSpec == SessionInit /\ [][SessionNext]_vars

-----------------------------------------------------------------------------
(* Colour matching: findClosestLegoColor applied to one sample *)

\* the channel values of the samples are the multiples of ChannelStep up to 255
ChannelStep == 51

ChannelValues == {v \in 0..255 : v % ChannelStep = 0} \cup {255}

\* samples at the same distance from two palette colours
TiedSamples ==
    { [r |-> 230, g |-> 77,  b |-> 45],  [r |-> 190, g |-> 11,  b |-> 131],
      [r |-> 30,  g |-> 117, b |-> 251], [r |-> 195, g |-> 159, b |-> 46],
      [r |-> 0,   g |-> 82,  b |-> 45],  [r |-> 160, g |-> 205, b |-> 251],
      [r |-> 65,  g |-> 2,   b |-> 70],  [r |-> 105, g |-> 158, b |-> 112],
      [r |-> 80,  g |-> 57,  b |-> 63],  [r |-> 30,  g |-> 130, b |-> 142] }

Samples == [r : ChannelValues, g : ChannelValues, b : ChannelValues] \cup TiedSamples

MatchInit ==
    /\ PageLoad
    /\ stepLimit = 0
    /\ sample \in Samples
    /\ matched = "none"

MatchColor ==
    /\ matched = "none"
    /\ matched' = findClosestLegoColor(sample.r, sample.g, sample.b)
    /\ UNCHANGED <<sample, ready, outcome, lastOp, steps>>
    /\ UNCHANGED gridVars
    /\ UNCHANGED imageVars
    /\ UNCHANGED sessionVars

MatchSpec == MatchInit /\ [][MatchColor]_vars

-----------------------------------------------------------------------------
(* Size requests: the change listener takes whatever value the selector    *)
(* delivers, so here the selector also delivers a value that is not one of *)
(* the supported sizes.                                                     *)

\* number of handler runs of a size-request run
MaxResizeSteps == 3

RequestedSizes == SupportedSizes \cup {64}

ResizeInit ==
    /\ PageLoad
    /\ stepLimit = MaxResizeSteps
    /\ sample = NoSample
    /\ matched = "none"

ResizeNext ==
    /\ \/ DOMContentLoaded
       \/ \E newSize \in RequestedSizes, confirmed \in BOOLEAN :
              canvasSizeChange(newSize, confirmed)
       \/ \E row \in ClickIndices(domSize), col \in ClickIndices(domSize) : placeBrick(row, col)
       \/ undo
       \/ \E confirmed \in BOOLEAN : clearCanvas(confirmed)
    /\ UNCHANGED sessionVars
    /\ UNCHANGED matchVars

ResizeSpec == ResizeInit /\ [][ResizeNext]_vars

-----------------------------------------------------------------------------
(* A generation followed by edits: one image, one resampling, and the      *)
(* handlers that change the grid, the size and the progress.                *)

\* number of handler runs of such a run
MaxProgressSteps == 5

ProgressInit ==
    /\ PageLoad
    /\ stepLimit = MaxProgressSteps
    /\ sample = NoSample
    /\ matched = "none"

ProgressNext ==
    /\ \/ DOMContentLoaded
       \/ readerOnload(StripesImage)
       \/ imgLoad("nearest")
       \/ generateLegoArt("nearest")
       \/ \E newSize \in SupportedSizes, confirmed \in BOOLEAN :
              canvasSizeChange(newSize, confirmed)
       \/ \E row \in ClickIndices(domSize), col \in ClickIndices(domSize) : placeBrick(row, col)
    /\ UNCHANGED sessionVars
    /\ UNCHANGED matchVars

ProgressSpec == ProgressInit /\ [][ProgressNext]_vars

-----------------------------------------------------------------------------
(* Generation attempts: uploads and presses of the generate button by the  *)
(* user, load and error events by the browser.  The user acts while fewer  *)
(* than MaxUserSteps handlers have run; every upload is followed by at     *)
(* most one event, so with room for 2 * MaxUserSteps handler runs an event *)
(* that is pending can always be delivered.  The browser delivers the load *)
(* or error event of an image whose load is pending: weak fairness.        *)

\* number of handler runs within which the user acts
MaxUserSteps == 4

GenerateInit ==
    /\ PageLoad
    /\ stepLimit = 2 * MaxUserSteps
    /\ sample = NoSample
    /\ matched = "none"

UserStep ==
    /\ steps < MaxUserSteps
    /\ \/ \E file \in Files : readerOnload(file)
       \/ \E drawn \in DrawOutcomes : generateLegoArt(drawn)
       \/ \E confirmed \in BOOLEAN : changeImage(confirmed)

ImageEvent ==
    \/ \E drawn \in DrawOutcomes : imgLoad(drawn)
    \/ imgError

GenerateNext ==
    /\ \/ DOMContentLoaded
       \/ UserStep
       \/ ImageEvent
    /\ UNCHANGED sessionVars
    /\ UNCHANGED matchVars

\* what a step of the browser shows: the page becomes ready, or the image
\* whose load was pending is loaded or broken.  The steps of GenerateNext
\* that do this are DOMContentLoaded and ImageEvent.
BrowserStep ==
    \/ ~ready /\ ready' = TRUE /\ imgStatus' = imgStatus
    \/ imgStatus = "loading" /\ imgStatus' \in {"loaded", "broken"} /\ ready' = ready

GenerateSpec ==
    GenerateInit /\ [][GenerateNext]_vars /\ WF_<<ready, imgStatus>>(BrowserStep)

-----------------------------------------------------------------------------
(* Properties *)

\* the step ran a handler that called saveState
SaveStep ==
    /\ steps' = steps + 1
    /\ \/ lastOp' = "placeBrick"
       \/ lastOp' = "clearCanvas" /\ outcome' # "declined"
       \/ lastOp' \in {"generateLegoArt", "imgLoad"} /\ outcome' \in {"generated", "TypeError"}

\* the contents of every snapshot of a stack
StackCells(stack) == Evaluated([k \in 1..Len(stack) |-> Cells(stack[k])])

\* C1: the undo history never holds more than 20 snapshots, and a save onto
\* a history of 20 drops the oldest snapshot: the other 19 move down one
\* place in their order and the new snapshot is the last.
C1_HistoryBoundedFifo ==
    /\ [](Len(undoStack) <= MaxUndo)
    /\ [][SaveStep /\ Len(undoStack) = MaxUndo =>
            /\ Len(undoStack') = MaxUndo
            /\ SubSeq(StackCells(undoStack'), 1, MaxUndo - 1) = Tail(StackCells(undoStack))
            /\ ReadCells(undoStack'[MaxUndo]) = ReadCells(legoGrid)]_vars

\* C1 witness: a session in which the history was full and a further edit was saved
C1_Witness ==
    /\ edits > MaxUndo
    /\ undos = 0
    /\ Len(undoStack) = MaxUndo
    /\ lastOp \in {"placeBrick", "clearCanvas"}

\* C2 (as claimed): once the page is initialised the live grid has canvasSize
\* rows and every row has canvasSize cells.
C2_GridIsCanvasSizeSquare ==
    ready =>
        /\ Len(legoGrid) = canvasSize
        /\ \A i \in 1..Len(legoGrid) : Len(legoGrid[i].cells) = canvasSize

\* C3 (as claimed): after a confirmed size change the grid is an all-empty
\* canvasSize x canvasSize matrix and the undo history is empty.
C3_ResizeEmptiesGridAndHistory ==
    (lastOp = "canvasSizeChange" /\ outcome = "ok") =>
        /\ Len(legoGrid) = canvasSize
        /\ \A i \in 1..Len(legoGrid) :
               legoGrid[i].cells = [j \in 1..canvasSize |-> null]
        /\ undoStack = <<>>

\* the last snapshot of a stack
Top(stack) == stack[Len(stack)]

\* C4: placeBrick, a generation and a confirmed clearCanvas leave on top of
\* the history a snapshot that reads cell for cell as the grid did before
\* the handler, and an undo makes the top snapshot the live grid: an undo
\* right after the handler gives back the grid as it was before it.
C4_SnapshotBeforeMutation ==
    [][/\ SaveStep =>
            /\ Len(undoStack') > 0
            /\ ReadCells(Top(undoStack')) = ReadCells(legoGrid)
       /\ (steps' = steps + 1 /\ lastOp' = "undo" /\ Len(undoStack) > 0) =>
            Cells(legoGrid') = Cells(Top(undoStack))]_vars

\* C4 witness: a mutating handler has run and the snapshot on top of the
\* history holds the grid as it was, which differs from the live grid
C4_Witness ==
    /\ lastOp \in {"placeBrick", "clearCanvas", "generateLegoArt", "imgLoad"}
    /\ outcome \in {"ok", "generated"}
    /\ Len(undoStack) > 0
    /\ ReadCells(Top(undoStack)) # ReadCells(legoGrid)

\* C5: in an editing session of n >= 20 edits the history holds 20 snapshots;
\* undo calls 1 to 20 each restore a state, the grid after u of them being
\* the grid as it was after edit n - u (after 20: after edit n - 20); undo
\* call 21 reports nothing to undo and leaves that grid.
C5_TwentyUndos ==
    edits >= MaxUndo =>
        /\ undos = 0 => Len(undoStack) = MaxUndo
        /\ undos \in 1..MaxUndo =>
              /\ outcome = "ok"
              /\ Len(undoStack) = MaxUndo - undos
              /\ ReadCells(legoGrid) = editLog[edits - undos + 1]
        /\ undos > MaxUndo =>
              /\ undos = MaxUndo + 1
              /\ outcome = "Nothing to undo!"
              /\ undoStack = <<>>
              /\ ReadCells(legoGrid) = editLog[edits - MaxUndo + 1]

\* C5 witness: MaxEdits edits, then 20 undo calls: the grid is the one after
\* edit MaxEdits - 20, which is neither the empty grid nor the last one
C5_Witness ==
    /\ edits = MaxEdits
    /\ undos = MaxUndo
    /\ undoStack = <<>>
    /\ ReadCells(legoGrid) = editLog[MaxEdits - MaxUndo + 1]
    /\ ReadCells(legoGrid) # editLog[1]
    /\ ReadCells(legoGrid) # editLog[MaxEdits + 1]

\* C6: a step changes the history only by removing its last snapshot or by
\* adding one at the end (dropping the first when 20 are held): the contents
\* of every snapshot that stays are what they were.
C6_SnapshotsImmutable ==
    [][LET old == StackCells(undoStack)
           new == StackCells(undoStack')
       IN  \/ new = old
           \/ Len(old) > 0 /\ new = SubSeq(old, 1, Len(old) - 1)
           \/ Len(new) = Len(old) + 1 /\ SubSeq(new, 1, Len(old)) = old
           \/ /\ Len(old) = MaxUndo /\ Len(new) = MaxUndo
              /\ SubSeq(new, 1, MaxUndo - 1) = Tail(old)]_vars

\* C6 witness: two snapshots are held, the older one differs from the live
\* grid, and the live grid has just been written
C6_Witness ==
    /\ Len(undoStack) >= 2
    /\ lastOp \in {"placeBrick", "generateLegoArt", "imgLoad"}
    /\ outcome \in {"ok", "generated"}
    /\ Cells(undoStack[1]) # Cells(legoGrid)
    /\ Cells(undoStack[1]) # Cells(undoStack[2])

\* C7: undo on an empty history reports "Nothing to undo!" and changes
\* neither the grid, the canvas size nor the history; undo on a non-empty
\* history removes the last snapshot, and that snapshot is the live grid.
C7_UndoOutcome ==
    [][(steps' = steps + 1 /\ lastOp' = "undo") =>
          IF undoStack = <<>>
          THEN /\ outcome' = "Nothing to undo!"
               /\ UNCHANGED <<legoGrid, canvasSize, undoStack>>
          ELSE /\ outcome' # "Nothing to undo!"
               /\ legoGrid' = Top(undoStack)
               /\ undoStack' = SubSeq(undoStack, 1, Len(undoStack) - 1)
               /\ canvasSize' = canvasSize]_vars

\* C7 witness: undo has just found the history empty
C7_Witness ==
    /\ ready
    /\ lastOp = "undo"
    /\ outcome = "Nothing to undo!"
    /\ undoStack = <<>>

\* the values held by the cells of a grid
CellValues(grid) ==
    UNION {{grid[i].cells[j] : j \in 1..Len(grid[i].cells)} : i \in 1..Len(grid)}

\* C8: every cell of the live grid and of every snapshot that holds a value
\* (is not null, undefined or a hole) holds the hex of a legoColors entry.
C8_PaletteClosure ==
    /\ CellValues(legoGrid) \subseteq PaletteHexes \cup {null, undefined, hole}
    /\ \A k \in 1..Len(undoStack) :
           CellValues(undoStack[k]) \subseteq PaletteHexes \cup {null, undefined, hole}

\* C8 witness: a brick placed with the colour the page selected at start is
\* in the live grid and in a snapshot
C8_Witness ==
    /\ legoColors[1].hex \in CellValues(legoGrid)
    /\ \E k \in 1..Len(undoStack) : legoColors[1].hex \in CellValues(undoStack[k])
    /\ "#FF0000" \notin PaletteHexes

\* squared Euclidean distance of the sample to palette entry k
SampleDistance(k) ==
    LET c == legoRGBs[k]
    IN  (sample.r - c.r) * (sample.r - c.r) + (sample.g - c.g) * (sample.g - c.g)
          + (sample.b - c.b) * (sample.b - c.b)

\* C9: the result of findClosestLegoColor is the hex of a palette entry k
\* such that no entry is nearer the sample (squared Euclidean distance) and
\* every entry before k is strictly farther.
C9_ClosestFirstInOrder ==
    matched # "none" =>
        \E k \in DOMAIN legoColors :
            /\ matched = legoColors[k].hex
            /\ \A j \in DOMAIN legoColors : SampleDistance(j) >= SampleDistance(k)
            /\ \A j \in 1..(k - 1) : SampleDistance(j) > SampleDistance(k)

\* C9 witness: a sample matched where two palette entries are both nearest
C9_Witness ==
    /\ matched # "none"
    /\ \E j, k \in DOMAIN legoColors :
          /\ j < k
          /\ SampleDistance(j) = SampleDistance(k)
          /\ \A i \in DOMAIN legoColors : SampleDistance(i) >= SampleDistance(k)

\* the nearest palette colour of a pixel <<r, g, b>>
PaletteColourOf(pixel) == findClosestLegoColor(pixel[1], pixel[2], pixel[3])

\* per image and size, the colour of the one source pixel at
\* (floor(col * w / size), floor(row * h / size))
FloorSampled ==
    [image \in {f \in Files : Decodable(f)} |->
        [size \in SupportedSizes |->
            [row \in 0..(size - 1) |->
                [col \in 0..(size - 1) |->
                    PaletteColourOf(SourcePixel(image, (col * image.w) \div size,
                                                       (row * image.h) \div size))]]]]

\* per scaled drawing, the colour of the pixel (x = col, y = row) of the
\* size x size buffer
BufferSampled ==
    [draw \in Draws |->
        [row \in 0..(draw.size - 1) |->
            [col \in 0..(draw.size - 1) |-> PaletteColourOf(ScaledPixel(draw, col, row))]]]

\* a generation has just run to its end
Generated ==
    /\ lastOp \in {"generateLegoArt", "imgLoad"}
    /\ outcome = "generated"

\* C10 (as claimed): after a generation every target cell (row, col) holds the
\* nearest palette colour of the source pixel at (floor(col * w / size),
\* floor(row * h / size)).
C10_FloorSourcePixel ==
    Generated =>
        \A row, col \in 0..(lastDraw.size - 1) :
            ArrayGet(legoGrid[row + 1].cells, col)
                = FloorSampled[lastDraw.image][lastDraw.size][row][col]

\* C10 (amended): after a generation every target cell (row, col) holds the
\* nearest palette colour of exactly one pixel, the pixel (x = col, y = row)
\* of the size x size buffer drawImage produced; when drawImage resamples by
\* nearest neighbour that pixel is the source pixel at
\* (floor(col * w / size), floor(row * h / size)).
C10_OneBufferPixelPerCell ==
    Generated =>
        \A row, col \in 0..(lastDraw.size - 1) :
            /\ ArrayGet(legoGrid[row + 1].cells, col) = BufferSampled[lastDraw][row][col]
            /\ lastDraw.filter = "nearest" =>
                  ArrayGet(legoGrid[row + 1].cells, col)
                      = FloorSampled[lastDraw.image][lastDraw.size][row][col]

\* C10 witness: a generation whose drawImage averaged, and a cell whose
\* colour is not that of the source pixel at the floor coordinates
C10_Witness ==
    /\ Generated
    /\ lastDraw.filter = "average"
    /\ \E row, col \in 0..(lastDraw.size - 1) :
          ArrayGet(legoGrid[row + 1].cells, col)
              # FloorSampled[lastDraw.image][lastDraw.size][row][col]

\* the grid a generation from a drawing gives when it depends on the drawing
\* alone: size rows of size cells, cell (row, col) the colour of buffer
\* pixel (x = col, y = row)
GeneratedContent(draw) ==
    Evaluated([i \in 1..draw.size |->
        Evaluated([j \in 1..draw.size |-> BufferSampled[draw][i - 1][j - 1]])])

\* C11 (as claimed): the grid after a generation is a function of the image,
\* the grid size and the palette (and of what drawImage made of them) alone,
\* whatever grid, history, colour and eraser mode the generation started from.
C11_GenerationDeterministic ==
    Generated => ReadCells(legoGrid) = GeneratedContent(lastDraw)

\* C12 (as claimed): a placeBrick(row, col) with row or col outside
\* 0..canvasSize-1 is rejected with an OutOfBounds error and changes neither
\* the live grid nor the undo history.
C12_OutOfBoundsRejected ==
    [][\A row, col \in 0..47 :
          ((row >= canvasSize \/ col >= canvasSize) /\ placeBrick(row, col)) =>
              /\ outcome' = "OutOfBounds"
              /\ UNCHANGED <<legoGrid, undoStack>>]_vars

\* what the page tells the user when a generation cannot be made
ErrorReports == {"Please upload an image first!", "Error loading image. Please try again.",
                 "Error processing image"}

\* C13 (as claimed): a press of the generate button when there is no image,
\* or when the image is complete with no width and no height, is answered
\* with an error report.
C13_EmptySourceReported ==
    (lastOp = "generateLegoArt" /\ imgStatus \in {"none", "broken"}) =>
        outcome \in ErrorReports

\* C14 (as claimed): a size request with a value outside the supported set
\* is rejected with InvalidSize and leaves canvasSize and the grid as they
\* were.
C14_InvalidSizeRejected ==
    [][\A newSize \in RequestedSizes \ SupportedSizes, confirmed \in BOOLEAN :
          canvasSizeChange(newSize, confirmed) =>
              /\ outcome' = "InvalidSize"
              /\ UNCHANGED <<canvasSize, legoGrid>>]_vars

\* the last handler ended with a call of updateProgress
ProgressComputed ==
    \/ lastOp = "DOMContentLoaded"
    \/ lastOp \in {"placeBrick", "undo", "clearCanvas", "canvasSizeChange"} /\ outcome = "ok"
    \/ Generated

\* C15 (as claimed): the progress computed by a handler is the rounded
\* percentage of the cells of the live grid that are not empty, out of
\* canvasSize * canvasSize, and it lies between 0 and 100.
C15_ProgressIsFraction ==
    ProgressComputed =>
        /\ progress = updateProgress(legoGrid, canvasSize)
        /\ progress \in 0..100

\* C16: a run of saveCreation leaves the live grid, the undo history, the
\* canvas size, the selected colour and the eraser mode as they were.
C16_SaveCreationReadsOnly ==
    [][(steps' = steps + 1 /\ lastOp' = "saveCreation") =>
          UNCHANGED <<legoGrid, undoStack, canvasSize, currentColor, isEraserMode>>]_vars

\* C16 witness: saveCreation has run on a grid with a brick and a history
C16_Witness ==
    /\ lastOp = "saveCreation"
    /\ outcome = "ok"
    /\ undoStack # <<>>
    /\ CellValues(legoGrid) # {null}

\* C17 (as claimed): no handler fails on legoGrid[row] being undefined for
\* the row it reads or writes.
C17_NoAccessOutsideGrid == outcome # "TypeError"

\* C18 (as claimed): a clearCanvas or a size change whose dialog is declined
\* leaves canvasSize, the live grid and the undo history as they were.
C18_DeclinedIsNoOp ==
    [][(/\ steps' = steps + 1
        /\ lastOp' \in {"clearCanvas", "canvasSizeChange"}
        /\ outcome' = "declined") =>
          UNCHANGED <<canvasSize, legoGrid, undoStack>>]_vars

\* a handler has just ended a generation attempt with an error report
GenerationFailed ==
    \/ lastOp = "generateLegoArt" /\ outcome = "Please upload an image first!"
    \/ lastOp = "imgError" /\ outcome = "Error loading image. Please try again."
    \/ lastOp \in {"generateLegoArt", "imgLoad"} /\ outcome = "Error processing image"

\* C20 (as claimed): the handler that ends a generation attempt with an
\* error report (no image, load error, image cannot be drawn) leaves the
\* live grid and the undo history as they were.
C20_FailedGenerationChangesNothing ==
    [][(steps' = steps + 1 /\ GenerationFailed') =>
          UNCHANGED <<legoGrid, undoStack>>]_vars

\* C19 (as claimed): whenever the generate button is disabled it is
\* eventually enabled again.
C19_ButtonReenabled == generateBtnDisabled ~> ~generateBtnDisabled

\* what a read of grid[row][col] gives; undefined where the grid has no row
CellAt(grid, row, col) ==
    IF row < Len(grid) THEN ArrayGet(grid[row + 1].cells, col) ELSE undefined

\* the bricks that get clicked: those of Next and the one of SessionEdit
ClickedIndices == IF domSize = 0 THEN {} ELSE ClickIndices(domSize) \cup {edits % domSize}

\* C21: a placeBrick(row, col) leaves every cell of the live grid other than
\* (row, col) reading as before, leaves canvasSize, currentColor and
\* isEraserMode as they were, and the history either gains one snapshot at
\* its end or, holding 20, keeps 20 with its first one dropped.
C21_PlaceBrickFrame ==
    [][\A row, col \in ClickedIndices :
          placeBrick(row, col) =>
              /\ \A r, c \in 0..47 :
                    (r # row \/ c # col) => CellAt(legoGrid', r, c) = CellAt(legoGrid, r, c)
              /\ UNCHANGED <<canvasSize, currentColor, isEraserMode>>
              /\ LET old == StackCells(undoStack)
                     new == StackCells(undoStack')
                 IN  IF Len(old) < MaxUndo
                     THEN Len(new) = Len(old) + 1 /\ SubSeq(new, 1, Len(old)) = old
                     ELSE Len(new) = MaxUndo /\ SubSeq(new, 1, MaxUndo - 1) = Tail(old)]_vars

\* C21 witness: a brick has been placed with the history at its limit, among
\* bricks placed before
C21_Witness ==
    /\ lastOp = "placeBrick"
    /\ outcome = "ok"
    /\ edits > MaxUndo
    /\ Len(undoStack) = MaxUndo
    /\ Cardinality({c \in 0..47 : CellAt(legoGrid, 0, c) \in PaletteHexes}) >= 2

\* a press of the generate button is waiting for the image to load
PressPending == imgStatus = "loading" /\ imgOnload = "processImageToLego"

\* the handlers and callbacks of the reference image
ImageHandlers == {"readerOnload", "changeImage", "imgError", "imgLoad", "generateLegoArt"}

\* processImageToLego has run in this step: it starts with saveState
GenerationRan == lastOp' \in ImageHandlers /\ undoStack' # undoStack

\* C22: the callbacks of an upload or a change of image (reader.onload, the
\* image's error event, changeImage) leave legoGrid and undoStack as they
\* were; a generation runs only in a generateLegoArt step or in the load
\* event a press is waiting for; only a press starts a wait, a press does
\* not both generate and wait, and the generation of a load event ends the
\* wait, so a press has at most one generation.
C22_GenerationOnlyOnPress ==
    [][/\ lastOp' \in {"readerOnload", "changeImage", "imgError"} =>
              UNCHANGED <<legoGrid, undoStack>>
       /\ GenerationRan => lastOp' \in {"generateLegoArt", "imgLoad"}
       /\ (GenerationRan /\ lastOp' = "imgLoad") => PressPending /\ ~PressPending'
       /\ (~PressPending /\ PressPending') => lastOp' = "generateLegoArt" /\ ~GenerationRan
       /\ (PressPending /\ PressPending') => ~GenerationRan]_vars

\* C22 witness: after a generation that waited for the image, another image
\* has been uploaded and has loaded with no generation
C22_Witness ==
    /\ lastOp = "imgLoad"
    /\ outcome = "ok"
    /\ lastDraw # NoDraw
    /\ imgOnerror = "reenable"
    /\ referenceImageData = imgSrc
    /\ Len(undoStack) = 1

\* C23 (as claimed): after a generation that ran to its end no cell of the
\* live grid is empty, the grid has canvasSize rows of canvasSize cells, and
\* the progress is 100.
C23_GenerationFillsGrid ==
    Generated =>
        /\ Len(legoGrid) = canvasSize
        /\ \A i \in 1..Len(legoGrid) :
              /\ Len(legoGrid[i].cells) = canvasSize
              /\ \A j \in 1..Len(legoGrid[i].cells) : legoGrid[i].cells[j] \in PaletteHexes
        /\ progress = 100

\* C24 (as claimed): a swatch click leaves isEraserMode off; isEraserMode
\* changes only by toggleEraser or a swatch click and currentColor only by a
\* colour selection, so the mode and colour at a placeBrick are those of the
\* last selection unless the eraser was toggled since; and a placeBrick(row,
\* col) leaves the cell (row, col) empty when isEraserMode is on and holding
\* currentColor when it is off.
C24_ToolDecidesCell ==
    [][/\ lastOp' = "selectColor" => ~isEraserMode'
       /\ isEraserMode' # isEraserMode => lastOp' \in {"toggleEraser", "selectColor"}
       /\ currentColor' # currentColor => lastOp' \in {"selectColor", "DOMContentLoaded"}
       /\ \A row, col \in ClickedIndices :
             placeBrick(row, col) =>
                 CellAt(legoGrid', row, col) = IF isEraserMode THEN null ELSE currentColor]_vars

=============================================================================
